---------------------------- MODULE Spec2Model ----------------------------
(* A model of the two DXF converters of the repository:                    *)
(*   dxf_to_osm      (src/dxf_to_osm.py)     DXF entities -> OSM XML       *)
(*   dxf_to_geojson  (src/DXFtoGeojson.py)   DXF entities -> GeoJSON       *)
(* The entity reader (ezdxf) is an external collaborator: the entities it  *)
(* yields are drawn one at a time from the bounded sets below.             *)
EXTENDS Integers, Sequences, FiniteSets, TLC

(* ------------------------------ bounds -------------------------------- *)
\* entities yielded by the reader in one run
MaxEntities == 2
\* points over all the entities of one run
MaxTotalPts == 4
\* coordinates are Coord(0) .. Coord(MaxCoord)
MaxCoord == 2

Coord(i) == <<i % 2, i \div 2>>
Coords == {Coord(i) : i \in 0..MaxCoord}
Units == {"mm", "ft"}

(* --------------------------- conversions ------------------------------ *)
DigitChars == <<"0", "1", "2", "3", "4", "5", "6", "7", "8", "9">>

\* str(i) of a non-negative int: its decimal digits
RECURSIVE Str(_)
Str(i) ==
    IF i < 10 THEN <<DigitChars[i + 1]>>
    ELSE Str(i \div 10) \o <<DigitChars[(i % 10) + 1]>>

\* str(x) of a float holding a non-negative whole number: "0.0", "1.0", ...
StrFloat(x) == Str(x) \o <<".", "0">>

\* f"{x:.3f}" of a float holding a non-negative whole number
Fmt3f(x) == Str(x) \o <<".", "0", "0", "0">>

\* set(node_refs)
SetOf(s) == {s[i] : i \in 1..Len(s)}

min(S) == CHOOSE x \in S : \A y \in S : x <= y
max(S) == CHOOSE x \in S : \A y \in S : x >= y

(* ----------------------------- entities ------------------------------- *)
\* One record shape for every entity: a LINE holds <<start, end>>, a CIRCLE
\* <<center>>, an LWPOLYLINE its point list and its closed flag.
LineEnt(s, e) == [type |-> "LINE", points |-> <<s, e>>, closed |-> FALSE]
PolyEnt(pts, c) == [type |-> "LWPOLYLINE", points |-> pts, closed |-> c]
CircleEnt(c) == [type |-> "CIRCLE", points |-> <<c>>, closed |-> FALSE]
OtherEnt == [type |-> "ARC", points |-> <<>>, closed |-> FALSE]
NoEntity == [type |-> "NONE", points |-> <<>>, closed |-> FALSE]

PointLists == UNION {[1..m -> Coords] : m \in 0..MaxTotalPts}
Lines == {LineEnt(s, e) : s \in Coords, e \in Coords}
Polylines == {PolyEnt(p, c) : p \in PointLists, c \in BOOLEAN}
Circles == {CircleEnt(c) : c \in Coords}

VARIABLES
    pc,             \* position in the running converter
    file_exists,    \* os.path.exists(dxf_path)
    unit,           \* the unit argument
    reader_invoked, \* ezdxf.readfile was called
    n,              \* entities the reader has yielded
    used,           \* points the reader has yielded
    entity,         \* the loop variable
    osm,            \* children of the osm root element, in document order
    node_id,        \* the shared id counter
    node_map,       \* (x, y) -> node id
    ways,           \* pending ways
    way_src,        \* history: for each pending way, the entity that made it
    dir_created,    \* Path(osm_path).parent.mkdir ran
    osm_file,       \* what was written to osm_path (<<>>: never written)
    stdout,         \* printed lines
    raised,         \* the exception that ended the run, or "none"
    features,       \* dxf_to_geojson: the feature list
    feat_src,       \* history: for each feature, the entity that made it
    geojson_file    \* what was written to geojson_path

vars == <<pc, file_exists, unit, reader_invoked, n, used, entity, osm, node_id,
          node_map, ways, way_src, dir_created, osm_file, stdout, raised,
          features, feat_src, geojson_file>>

readerVars == <<n, used, entity>>
osmVars == <<osm, node_id, node_map, ways, way_src, dir_created, osm_file>>
geoVars == <<features, feat_src, geojson_file>>

EmptyMap == [c \in {} |-> <<>>]

Line(msg, args) == [msg |-> msg, args |-> args]

Init ==
    /\ pc = "entry"
    /\ file_exists \in BOOLEAN
    /\ unit \in Units
    /\ reader_invoked = FALSE
    /\ n = 0
    /\ used = 0
    /\ entity = NoEntity
    /\ osm = <<>>
    /\ node_id = 0
    /\ node_map = EmptyMap
    /\ ways = <<>>
    /\ way_src = <<>>
    /\ dir_created = FALSE
    /\ osm_file = <<>>
    /\ stdout = <<>>
    /\ raised = "none"
    /\ features = <<>>
    /\ feat_src = <<>>
    /\ geojson_file = [written |-> FALSE, features |-> <<>>]

(* ============================ dxf_to_osm ============================== *)

MetaElem(u) ==
    [elem |-> "meta", author |-> "dxf_to_osm", unit |-> u, source |-> "indoor_dwg"]

NodeElem(id, coord, tags) ==
    [elem |-> "node", id |-> id, visible |-> "true", version |-> "1",
     x |-> StrFloat(coord[1]), y |-> StrFloat(coord[2]), tag |-> tags]

\* the file is missing: report and return
NotFound ==
    /\ pc = "entry"
    /\ ~file_exists
    /\ stdout' = stdout \o <<Line("Converting DXF", <<>>),
                             Line("Error: DXF file not found", <<>>)>>
    /\ pc' = "returned"
    /\ UNCHANGED <<file_exists, unit, reader_invoked, raised>>
    /\ UNCHANGED <<readerVars, osmVars, geoVars>>

\* mutant of ReadFile: the entry check on the input path is missing
ReadFile_NoGuard ==
    /\ pc = "entry"
    /\ stdout' = Append(stdout, Line("Converting DXF", <<>>))
    /\ reader_invoked' = TRUE
    /\ osm' = <<MetaElem(unit)>>
    /\ node_id' = 1
    /\ node_map' = EmptyMap
    /\ ways' = <<>>
    /\ pc' = "loop"
    /\ UNCHANGED <<file_exists, unit, raised, readerVars, way_src, dir_created,
                   osm_file, geoVars>>

\* read the file, start the document and the counter
ReadFile ==
    /\ pc = "entry"
    /\ file_exists
    /\ stdout' = Append(stdout, Line("Converting DXF", <<>>))
    /\ reader_invoked' = TRUE
    /\ osm' = <<MetaElem(unit)>>
    /\ node_id' = 1
    /\ node_map' = EmptyMap
    /\ ways' = <<>>
    /\ pc' = "loop"
    /\ UNCHANGED <<file_exists, unit, raised, readerVars, way_src, dir_created,
                   osm_file, geoVars>>

\* the builder's state threaded through one entity's points
Builder == [node_id |-> node_id, node_map |-> node_map, osm |-> osm, node_refs |-> <<>>]

\* mutant of ResolvePoints: the lookup in the node map is missing, every point
\* makes a node
RECURSIVE ResolvePoints_NoDedup(_, _)
ResolvePoints_NoDedup(points, b) ==
    IF points = <<>> THEN b
    ELSE LET coord == Head(points)
             b1 == [b EXCEPT
                      !.node_map = (coord :> Str(b.node_id)) @@ b.node_map,
                      !.osm = Append(b.osm, NodeElem(Str(b.node_id), coord, <<>>)),
                      !.node_id = b.node_id + 1]
         IN  ResolvePoints_NoDedup(Tail(points),
                           [b1 EXCEPT !.node_refs = Append(b1.node_refs, b1.node_map[coord])])

\* "Create or get node IDs": the loop over an entity's points
RECURSIVE ResolvePoints(_, _)
ResolvePoints(points, b) ==
    IF points = <<>> THEN b
    ELSE LET coord == Head(points)
             b1 == IF coord \notin DOMAIN b.node_map
                   THEN [b EXCEPT
                           !.node_map = (coord :> Str(b.node_id)) @@ b.node_map,
                           !.osm = Append(b.osm, NodeElem(Str(b.node_id), coord, <<>>)),
                           !.node_id = b.node_id + 1]
                   ELSE b
         IN  ResolvePoints(Tail(points),
                           [b1 EXCEPT !.node_refs = Append(b1.node_refs, b1.node_map[coord])])

\* mutant of LineMakesWay: the references are counted, not the distinct ones
LineMakesWay_ByLength(node_refs) == Len(node_refs) > 1

\* a LINE makes a way unless start == end
LineMakesWay(node_refs) == Cardinality(SetOf(node_refs)) > 1

\* is_closed of an LWPOLYLINE
IsClosed(e) == e.closed /\ Len(e.points) > 2

\* "Minimum points for valid geometry"
PolyMakesWay(node_refs, is_closed) ==
    Cardinality(SetOf(node_refs)) >= (IF is_closed THEN 3 ELSE 2)

\* mutant of PolyWayNodes: the first node is not repeated
PolyWayNodes_NoClose(node_refs, is_closed) == node_refs

\* the node list of a polyline's way: a closed way repeats its first node
PolyWayNodes(node_refs, is_closed) ==
    IF is_closed THEN Append(node_refs, node_refs[1]) ELSE node_refs

Way(id, nodes, closed) == [id |-> id, nodes |-> nodes, closed |-> closed]

\* mutant of AfterWay: a way does not advance the counter
AfterWay_Same(id) == id

\* "node_id += 1" after a way took the counter's value as its id
AfterWay(id) == id + 1

\* the reader yields e
Yield(e) ==
    /\ n < MaxEntities
    /\ used + Len(e.points) <= MaxTotalPts
    /\ n' = n + 1
    /\ used' = used + Len(e.points)
    /\ entity' = e

ProcessLine(e) ==
    /\ pc = "loop"
    /\ Yield(e)
    /\ LET b == ResolvePoints(e.points, Builder)
       IN  /\ node_map' = b.node_map
           /\ osm' = b.osm
           /\ IF LineMakesWay(b.node_refs)
              THEN /\ ways' = Append(ways, Way(Str(b.node_id), b.node_refs, FALSE))
                   /\ way_src' = Append(way_src, [n |-> n + 1, entity |-> e])
                   /\ node_id' = AfterWay(b.node_id)
              ELSE /\ node_id' = b.node_id
                   /\ UNCHANGED <<ways, way_src>>
    /\ UNCHANGED <<pc, file_exists, unit, reader_invoked, dir_created, osm_file,
                   stdout, raised, geoVars>>

ProcessLwpolyline(e) ==
    /\ pc = "loop"
    /\ Yield(e)
    /\ LET is_closed == IsClosed(e)
           b == ResolvePoints(e.points, Builder)
       IN  /\ node_map' = b.node_map
           /\ osm' = b.osm
           /\ IF PolyMakesWay(b.node_refs, is_closed)
              THEN /\ ways' = Append(ways, Way(Str(b.node_id),
                                               PolyWayNodes(b.node_refs, is_closed),
                                               is_closed))
                   /\ way_src' = Append(way_src, [n |-> n + 1, entity |-> e])
                   /\ node_id' = AfterWay(b.node_id)
              ELSE /\ node_id' = b.node_id
                   /\ UNCHANGED <<ways, way_src>>
    /\ UNCHANGED <<pc, file_exists, unit, reader_invoked, dir_created, osm_file,
                   stdout, raised, geoVars>>

\* the tags of a CIRCLE's node
CircleTags == <<<<"highway", "point">>, <<"indoor", "yes">>>>

\* mutant of ProcessCircle: the lookup in the node map is missing
ProcessCircle_NoCheck(e) ==
    /\ pc = "loop"
    /\ Yield(e)
    /\ LET coord == e.points[1]
       IN  /\ node_map' = (coord :> Str(node_id)) @@ node_map
           /\ osm' = Append(osm, NodeElem(Str(node_id), coord, CircleTags))
           /\ node_id' = node_id + 1
    /\ UNCHANGED <<pc, file_exists, unit, reader_invoked, ways, way_src, dir_created,
                   osm_file, stdout, raised, geoVars>>

ProcessCircle(e) ==
    /\ pc = "loop"
    /\ Yield(e)
    /\ LET coord == e.points[1]
       IN  IF coord \notin DOMAIN node_map
           THEN /\ node_map' = (coord :> Str(node_id)) @@ node_map
                /\ osm' = Append(osm, NodeElem(Str(node_id), coord, CircleTags))
                /\ node_id' = node_id + 1
           ELSE UNCHANGED <<node_map, osm, node_id>>
    /\ UNCHANGED <<pc, file_exists, unit, reader_invoked, ways, way_src, dir_created,
                   osm_file, stdout, raised, geoVars>>

\* any other entity type falls through the if / elif chain
ProcessOther ==
    /\ pc = "loop"
    /\ Yield(OtherEnt)
    /\ UNCHANGED <<pc, file_exists, unit, reader_invoked, osmVars, stdout, raised,
                   geoVars>>

\* mutant of WayTags: the two geometry tags are exchanged
WayTags_Swapped(way, u) ==
    <<IF way.closed THEN <<"highway", "wall">> ELSE <<"building", "room">>,
      <<"indoor", "yes">>, <<"source", "DXF">>, <<"unit", u>>>>

\* the tags of a way element
WayTags(way, u) ==
    <<IF way.closed THEN <<"building", "room">> ELSE <<"highway", "wall">>,
      <<"indoor", "yes">>, <<"source", "DXF">>, <<"unit", u>>>>

WayElem(way, u) ==
    [elem |-> "way", id |-> way.id, visible |-> "true", version |-> "1",
     nd |-> way.nodes, tag |-> WayTags(way, u)]

\* mutant of AddWays: the ways are put before the nodes
AddWays_Front(doc, ws, u) ==
    <<doc[1]>> \o [k \in 1..Len(ws) |-> WayElem(ws[k], u)] \o Tail(doc)

\* "Add ways to OSM"
AddWays(doc, ws, u) == doc \o [k \in 1..Len(ws) |-> WayElem(ws[k], u)]

\* the reader is exhausted: add the ways and write the file
WriteOsm ==
    /\ pc = "loop"
    /\ osm' = AddWays(osm, ways, unit)
    /\ dir_created' = TRUE
    /\ osm_file' = osm'
    /\ stdout' = Append(stdout, Line("OSM file saved", <<>>))
    /\ pc' = "stats"
    /\ UNCHANGED <<file_exists, unit, reader_invoked, readerVars, node_id, node_map,
                   ways, way_src, raised, geoVars>>

\* "Debug: Print stats"; min() and max() of an empty list raise ValueError
PrintStats ==
    /\ pc = "stats"
    /\ LET counts == <<Line("Nodes created", <<Str(Cardinality(DOMAIN node_map))>>),
                       Line("Ways created", <<Str(Len(ways))>>)>>
           x_coords == {c[1] : c \in DOMAIN node_map}
           y_coords == {c[2] : c \in DOMAIN node_map}
       IN  IF DOMAIN node_map = {}
           THEN /\ stdout' = stdout \o counts
                /\ raised' = "ValueError"
                /\ pc' = "raised"
           ELSE /\ stdout' = stdout \o counts \o
                       <<Line("X range", <<Fmt3f(min(x_coords)), Fmt3f(max(x_coords))>>),
                         Line("Y range", <<Fmt3f(min(y_coords)), Fmt3f(max(y_coords))>>)>>
                /\ raised' = raised
                /\ pc' = "done"
    /\ UNCHANGED <<file_exists, unit, reader_invoked, readerVars, osmVars, geoVars>>

\* the entities of S the reader can still yield within the bounds
Yieldable(S) ==
    IF pc = "loop" /\ n < MaxEntities
    THEN {e \in S : used + Len(e.points) <= MaxTotalPts}
    ELSE {}

Next ==
    \/ NotFound
    \/ ReadFile
    \/ \E e \in Yieldable(Lines) : ProcessLine(e)
    \/ \E e \in Yieldable(Polylines) : ProcessLwpolyline(e)
    \/ \E e \in Yieldable(Circles) : ProcessCircle(e)
    \/ ProcessOther
    \/ WriteOsm
    \/ PrintStats

Spec == Init /\ [][Next]_vars

(* ========================== dxf_to_geojson ============================ *)

\* a shapely constructor either returns a geometry or raises
Geometry(type, coordinates) == [ok |-> TRUE, type |-> type, coordinates |-> coordinates]
GeometryError == [ok |-> FALSE, type |-> "ValueError", coordinates |-> <<>>]

\* LineString(points): one point alone is refused
LineString(points) ==
    IF Len(points) = 1 THEN GeometryError ELSE Geometry("LineString", points)

\* Point((x, y))
Point(coord) == Geometry("Point", coord)

\* Polygon(points): the shell is closed into a ring; one or two points are refused
Polygon(points) ==
    IF Len(points) = 0 THEN Geometry("Polygon", <<>>)
    ELSE IF Len(points) < 3 THEN GeometryError
    ELSE Geometry("Polygon",
                  <<IF points[1] = points[Len(points)] THEN points
                    ELSE Append(points, points[1])>>)

\* the geometry an LWPOLYLINE is mapped to
PolylineGeometry(e) == IF e.closed THEN Polygon(e.points) ELSE LineString(e.points)

\* geojson.Feature(geometry=mapping(g))
Feature(g) == [type |-> "Feature", geometry |-> [type |-> g.type, coordinates |-> g.coordinates]]

\* ezdxf.readfile: there is no guard, a missing file raises
GeoReadFile ==
    /\ pc = "entry"
    /\ reader_invoked' = TRUE
    /\ IF file_exists
       THEN pc' = "loop" /\ raised' = raised
       ELSE pc' = "raised" /\ raised' = "IOError"
    /\ UNCHANGED <<file_exists, unit, readerVars, osmVars, stdout, geoVars>>

\* features.append(...) of the geometry g made from e, or the constructor's error
AppendFeature(e, g) ==
    IF g.ok
    THEN /\ features' = Append(features, Feature(g))
         /\ feat_src' = Append(feat_src, [n |-> n + 1, entity |-> e])
         /\ UNCHANGED <<pc, raised>>
    ELSE /\ pc' = "raised"
         /\ raised' = g.type
         /\ UNCHANGED <<features, feat_src>>

GeoLine(e) ==
    /\ pc = "loop"
    /\ Yield(e)
    /\ AppendFeature(e, LineString(e.points))
    /\ UNCHANGED <<file_exists, unit, reader_invoked, osmVars, stdout, geojson_file>>

GeoCircle(e) ==
    /\ pc = "loop"
    /\ Yield(e)
    /\ AppendFeature(e, Point(e.points[1]))
    /\ UNCHANGED <<file_exists, unit, reader_invoked, osmVars, stdout, geojson_file>>

GeoLwpolyline(e) ==
    /\ pc = "loop"
    /\ Yield(e)
    /\ AppendFeature(e, PolylineGeometry(e))
    /\ UNCHANGED <<file_exists, unit, reader_invoked, osmVars, stdout, geojson_file>>

GeoOther ==
    /\ pc = "loop"
    /\ Yield(OtherEnt)
    /\ UNCHANGED <<pc, file_exists, unit, reader_invoked, osmVars, stdout, raised,
                   geoVars>>

\* geojson.dump of the FeatureCollection
GeoDump ==
    /\ pc = "loop"
    /\ geojson_file' = [written |-> TRUE, features |-> features]
    /\ stdout' = Append(stdout, Line("GeoJSON saved", <<>>))
    /\ pc' = "done"
    /\ UNCHANGED <<file_exists, unit, reader_invoked, readerVars, osmVars, raised,
                   features, feat_src>>

NextGeo ==
    \/ GeoReadFile
    \/ \E e \in Yieldable(Lines) : GeoLine(e)
    \/ \E e \in Yieldable(Circles) : GeoCircle(e)
    \/ \E e \in Yieldable(Polylines) : GeoLwpolyline(e)
    \/ GeoOther
    \/ GeoDump

SpecGeo == Init /\ [][NextGeo]_vars

(* ============================== claims ================================ *)

IsNode(el) == el.elem = "node"
IsWay(el) == el.elem = "way"
NodeElems(doc) == SelectSeq(doc, IsNode)
WayElems(doc) == SelectSeq(doc, IsWay)

\* the run got past the entry check
Started == pc \in {"loop", "stats", "done", "raised"}
\* the output file was written
Written == pc \in {"stats", "done", "raised"}

DigitVal(c) == CHOOSE d \in 0..9 : DigitChars[d + 1] = c
RECURSIVE ToInt(_)
ToInt(s) ==
    IF s = <<>> THEN 0
    ELSE ToInt(SubSeq(s, 1, Len(s) - 1)) * 10 + DigitVal(s[Len(s)])

\* the ids the node map gives a point list
Ids(points) == [i \in 1..Len(points) |-> node_map[points[i]]]

\* the node elements of doc at coordinate c
NodesAt(doc, c) ==
    {i \in 1..Len(NodeElems(doc)) :
        /\ NodeElems(doc)[i].x = StrFloat(c[1])
        /\ NodeElems(doc)[i].y = StrFloat(c[2])}

Supported(e) == e.type \in {"LINE", "LWPOLYLINE", "CIRCLE"}

\* C1: every resolved coordinate has exactly one node element, carrying the one
\* id the node map gives it; no two coordinates share an id; every position of
\* every way's reference list holds the id of the coordinate it stands for, in
\* the pending ways and in the written document.
C1_Dedup ==
    Started =>
        /\ Supported(entity) => SetOf(entity.points) \subseteq DOMAIN node_map
        /\ \A c \in DOMAIN node_map :
              /\ Cardinality(NodesAt(osm, c)) = 1
              /\ \A i \in NodesAt(osm, c) : NodeElems(osm)[i].id = node_map[c]
        /\ Len(NodeElems(osm)) = Cardinality(DOMAIN node_map)
        /\ \A c1, c2 \in DOMAIN node_map : c1 # c2 => node_map[c1] # node_map[c2]
        /\ \A k \in 1..Len(ways) :
              LET points == way_src[k].entity.points
              IN  /\ SetOf(points) \subseteq DOMAIN node_map
                  /\ Len(ways[k].nodes) \in {Len(points), Len(points) + 1}
                  /\ \A i \in 1..Len(ways[k].nodes) :
                        ways[k].nodes[i] =
                            node_map[points[IF i <= Len(points) THEN i ELSE 1]]
        /\ Written =>
              /\ osm_file = osm
              /\ Len(WayElems(osm)) = Len(ways)
              /\ \A k \in 1..Len(ways) : WayElems(osm)[k].nd = ways[k].nodes

\* two entities of a finished run share a coordinate, and both made a way
C1_Witness ==
    /\ pc = "done"
    /\ Len(ways) = 2
    /\ SetOf(ways[1].nodes) \cap SetOf(ways[2].nodes) # {}
    /\ SetOf(ways[1].nodes) # SetOf(ways[2].nodes)

\* C2: a polyline with at least 3 distinct coordinates always makes a way; declared
\* closed, its references are the ids of its points in order followed by the first
\* id again and it is tagged building=room; declared open, its references are
\* exactly the ids of its points in order and it is tagged highway=wall.
C2_RingClosure ==
    /\ (/\ entity.type = "LWPOLYLINE"
        /\ Cardinality(SetOf(entity.points)) >= 3)
       => (Len(ways) >= 1 /\ way_src[Len(ways)] = [n |-> n, entity |-> entity])
    /\ \A k \in 1..Len(ways) :
          LET e == way_src[k].entity
              ids == Ids(e.points)
              w == ways[k]
              tags == WayElems(osm)[k].tag
          IN  (e.type = "LWPOLYLINE" /\ Cardinality(SetOf(e.points)) >= 3) =>
                 IF e.closed
                 THEN /\ w.nodes = Append(ids, ids[1])
                      /\ w.nodes[1] = w.nodes[Len(w.nodes)]
                      /\ Len(w.nodes) = Len(e.points) + 1
                      /\ Written =>
                            /\ WayElems(osm)[k].nd = w.nodes
                            /\ <<"building", "room">> \in SetOf(tags)
                            /\ <<"highway", "wall">> \notin SetOf(tags)
                 ELSE /\ w.nodes = ids
                      /\ Len(w.nodes) = Len(e.points)
                      /\ Written =>
                            /\ WayElems(osm)[k].nd = w.nodes
                            /\ <<"highway", "wall">> \in SetOf(tags)
                            /\ <<"building", "room">> \notin SetOf(tags)

\* a finished run whose closed polyline of 3 distinct points made a ring
C2_Witness ==
    /\ pc = "done"
    /\ \E k \in 1..Len(ways) :
          /\ way_src[k].entity.type = "LWPOLYLINE"
          /\ way_src[k].entity.closed
          /\ Cardinality(SetOf(way_src[k].entity.points)) >= 3
          /\ Len(WayElems(osm)[k].nd) = 4

\* C4 as claimed: with the input file present no run raises, and a finished run
\* has written the output and printed the node count, the way count and both
\* coordinate ranges.
C4_NeverRaises ==
    file_exists =>
        /\ raised = "none"
        /\ pc # "raised"
        /\ pc = "done" =>
              /\ osm_file # <<>>
              /\ \A m \in {"Nodes created", "Ways created", "X range", "Y range"} :
                    \E i \in 1..Len(stdout) : stdout[i].msg = m

\* C7: with the input file missing the run reports the error and returns; the
\* reader is never invoked, the output directory is not created, no output is
\* written, nothing is raised.
C7_MissingInput ==
    ~file_exists =>
        /\ pc \in {"entry", "returned"}
        /\ ~reader_invoked
        /\ n = 0
        /\ ~dir_created
        /\ osm_file = <<>>
        /\ raised = "none"
        /\ pc = "returned" =>
              stdout[Len(stdout)].msg = "Error: DXF file not found"

\* the run returned at the entry check
C7_Witness == pc = "returned" /\ ~file_exists /\ Len(stdout) = 2

\* an entity was processed by this step of the pass
EntityStep == pc = "loop" /\ n' = n + 1

\* the coordinates of a point list not yet in the set known, in first-seen order
RECURSIVE FirstSeen(_, _)
FirstSeen(points, known) ==
    IF points = <<>> THEN <<>>
    ELSE IF Head(points) \in known THEN FirstSeen(Tail(points), known)
    ELSE <<Head(points)>> \o FirstSeen(Tail(points), known \cup {Head(points)})

\* the least number of distinct node ids for e to make a way
Minimum(e) ==
    IF e.type = "LWPOLYLINE" /\ e.closed /\ Len(e.points) > 2 THEN 3 ELSE 2

\* C3: a LINE or polyline adds a way if and only if the number of distinct node
\* ids it resolves to meets the minimum for its shape (2, or 3 for a polyline
\* declared closed with more than 2 points). Without a way the counter moves
\* only by the new nodes; each new coordinate gets exactly one node; a LINE with
\* start == end adds no way and at most one node.
C3_WayIff ==
    [][(EntityStep /\ entity'.type \in {"LINE", "LWPOLYLINE"}) =>
        LET e == entity'
            distinct == Cardinality({node_map'[c] : c \in SetOf(e.points)})
            new == SetOf(e.points) \ DOMAIN node_map
            added == Len(ways') = Len(ways) + 1
        IN  /\ added <=> distinct >= Minimum(e)
            /\ ~added => ways' = ways
            /\ added => SubSeq(ways', 1, Len(ways)) = ways
            /\ DOMAIN node_map' = DOMAIN node_map \cup SetOf(e.points)
            /\ Len(NodeElems(osm')) = Len(NodeElems(osm)) + Cardinality(new)
            /\ \A c \in new : Cardinality(NodesAt(osm', c)) = 1
            /\ node_id' = node_id + Cardinality(new) + (IF added THEN 1 ELSE 0)
            /\ (e.type = "LINE" /\ e.points[1] = e.points[2]) =>
                  ~added /\ Cardinality(new) <= 1
      ]_vars

\* a LINE with start == end was processed first: one node, no way, and a polyline
\* declared closed fell below its minimum after it
C3_Witness ==
    /\ pc = "done"
    /\ n = 2
    /\ entity.type = "LWPOLYLINE" /\ entity.closed /\ Len(entity.points) = 3
    /\ ways = <<>>
    /\ Cardinality(DOMAIN node_map) = 2
    /\ node_id = 3

\* C5 as claimed: every LWPOLYLINE appends exactly one feature, a Polygon when it
\* is declared closed and has at least 3 points, in every other case a
\* LineString of its points in order.
C5_PolygonOnlyFrom3 ==
    (n >= 1 /\ entity.type = "LWPOLYLINE") =>
        /\ pc # "raised"
        /\ Len(features) >= 1
        /\ feat_src[Len(features)] = [n |-> n, entity |-> entity]
        /\ LET g == features[Len(features)].geometry
           IN  IF entity.closed /\ Len(entity.points) >= 3
               THEN g.type = "Polygon"
               ELSE g.type = "LineString" /\ g.coordinates = entity.points

\* some node of the document was assigned after some way was created
NodeAfterWay ==
    \E k \in 1..Len(ways) : \E c \in DOMAIN node_map :
        ToInt(node_map[c]) > ToInt(ways[k].id)

\* C6 as claimed: in a finished run where a node was assigned after a way was
\* created, some way's id equals the id of a node assigned after it.
C6_IdsCollide ==
    (pc = "done" /\ NodeAfterWay) =>
        \E k \in 1..Len(ways) : \E c \in DOMAIN node_map : node_map[c] = ways[k].id

\* C6 as amended: the shared counter gives every value to one element only: no
\* way's id equals any node's id, and no two ways share an id, in the pending
\* ways and in the written document.
C6_IdsDisjoint ==
    Started =>
        /\ \A k \in 1..Len(ways) : \A c \in DOMAIN node_map : node_map[c] # ways[k].id
        /\ \A k \in 1..Len(ways) : ToInt(ways[k].id) < node_id
        /\ \A c \in DOMAIN node_map : ToInt(node_map[c]) < node_id
        /\ \A j, k \in 1..Len(ways) : j # k => ways[j].id # ways[k].id
        /\ \A i, j \in 1..Len(osm) :
              (i # j /\ osm[i].elem # "meta" /\ osm[j].elem # "meta")
                  => osm[i].id # osm[j].id

\* a finished run in which a node was assigned after a way was created
C6_Witness == pc = "done" /\ NodeAfterWay /\ Len(WayElems(osm)) >= 1

\* C8: a CIRCLE never adds a way; a center not yet in the node map makes exactly
\* one node, tagged highway=point and indoor=yes and nothing else; a known center
\* changes nothing. A LINE or polyline makes untagged nodes only, and no later
\* step changes an element already in the document.
C8_Circle ==
    [][/\ pc = "loop" => SubSeq(osm', 1, Len(osm)) = osm
       /\ (EntityStep /\ entity'.type = "CIRCLE") =>
             LET coord == entity'.points[1]
             IN  /\ ways' = ways
                 /\ IF coord \in DOMAIN node_map
                    THEN /\ osm' = osm
                         /\ node_map' = node_map
                         /\ node_id' = node_id
                    ELSE /\ Len(osm') = Len(osm) + 1
                         /\ osm'[Len(osm')].elem = "node"
                         /\ osm'[Len(osm')].id = Str(node_id)
                         /\ osm'[Len(osm')].x = StrFloat(coord[1])
                         /\ osm'[Len(osm')].y = StrFloat(coord[2])
                         /\ osm'[Len(osm')].tag =
                               <<<<"highway", "point">>, <<"indoor", "yes">>>>
                         /\ DOMAIN node_map' = DOMAIN node_map \cup {coord}
                         /\ node_id' = node_id + 1
       /\ (EntityStep /\ entity'.type \in {"LINE", "LWPOLYLINE"}) =>
             \A i \in (Len(osm) + 1)..Len(osm') :
                 osm'[i].elem = "node" /\ osm'[i].tag = <<>>
      ]_vars

\* a finished run: a LINE made untagged nodes, then a CIRCLE at a new center made
\* a tagged one
C8_Witness ==
    /\ pc = "done"
    /\ n = 2
    /\ entity.type = "CIRCLE"
    /\ ways # <<>>
    /\ Len(NodeElems(osm)) = 3
    /\ NodeElems(osm)[1].tag = <<>>
    /\ NodeElems(osm)[3].tag # <<>>

\* the document's order: meta, then nodes, then ways; ids increasing in each kind
Ordered(doc) ==
    /\ doc[1].elem = "meta"
    /\ \A i \in 2..Len(doc) : doc[i].elem \in {"node", "way"}
    /\ \A i, j \in 2..Len(doc) : (i < j /\ doc[i].elem = "way") => doc[j].elem = "way"
    /\ \A i, j \in 2..Len(doc) :
          (i < j /\ doc[i].elem = doc[j].elem) => ToInt(doc[i].id) < ToInt(doc[j].id)

\* C9: the document holds meta first, then every node, then every way; node
\* elements are appended in the order their coordinates are first seen and way
\* elements in the order their entities were processed, each kind with strictly
\* increasing ids.
C9_Order ==
    [][/\ pc' \in {"loop", "stats", "done", "raised"} => Ordered(osm')
       /\ (EntityStep /\ Supported(entity')) =>
             LET new == FirstSeen(entity'.points, DOMAIN node_map)
             IN  /\ Len(NodeElems(osm')) = Len(NodeElems(osm)) + Len(new)
                 /\ \A i \in 1..Len(new) :
                       LET el == NodeElems(osm')[Len(NodeElems(osm)) + i]
                       IN  el.x = StrFloat(new[i][1]) /\ el.y = StrFloat(new[i][2])
                 /\ \A j, k \in 1..Len(ways') : j < k => way_src'[j].n < way_src'[k].n
       /\ (pc = "loop" /\ pc' = "stats") =>
             /\ NodeElems(osm') = NodeElems(osm)
             /\ Len(WayElems(osm')) = Len(ways)
             /\ \A k \in 1..Len(ways) :
                   WayElems(osm')[k].id = ways[k].id /\ WayElems(osm')[k].nd = ways[k].nodes
             /\ osm_file' = osm'
      ]_vars

\* a written document with nodes of two entities and two ways
C9_Witness ==
    /\ pc = "done"
    /\ Len(WayElems(osm_file)) = 2
    /\ Len(NodeElems(osm_file)) >= 3

\* C10: every way element carries exactly four tags: building=room when its way
\* is closed, highway=wall when it is not, then indoor=yes, source=DXF and
\* unit=<unit>; a LINE's way is open, and so is the way of a polyline declared
\* closed with 2 points.
C10_WayTags ==
    /\ \A k \in 1..Len(ways) :
          LET e == way_src[k].entity
          IN  /\ e.type = "LINE" => ~ways[k].closed
              /\ (e.type = "LWPOLYLINE" /\ Len(e.points) <= 2) => ~ways[k].closed
              /\ (e.type = "LWPOLYLINE" /\ ~e.closed) => ~ways[k].closed
    /\ Written =>
          \A k \in 1..Len(ways) :
              LET tags == WayElems(osm_file)[k].tag
              IN  /\ Len(tags) = 4
                  /\ tags[1] = IF ways[k].closed THEN <<"building", "room">>
                               ELSE <<"highway", "wall">>
                  /\ tags[2] = <<"indoor", "yes">>
                  /\ tags[3] = <<"source", "DXF">>
                  /\ tags[4] = <<"unit", unit>>
                  /\ \A i \in 2..4 : tags[i][1] \notin {"building", "highway"}

\* a written document with the way of a LINE and the way of a polyline declared
\* closed with 2 points
C10_Witness ==
    /\ pc = "done"
    /\ Len(ways) = 2
    /\ way_src[1].entity.type = "LINE"
    /\ way_src[2].entity.type = "LWPOLYLINE"
    /\ way_src[2].entity.closed
    /\ Len(way_src[2].entity.points) = 2
    /\ WayElems(osm_file)[2].tag[1] = <<"highway", "wall">>

=============================================================================
